---- MODULE Spec2Model ----
(***************************************************************************)
(* A model of the crawl callback (scraper.py) and of the analytics         *)
(* aggregator (analytics.py).                                              *)
(*                                                                         *)
(* Strings are modelled at the granularity the code inspects them:         *)
(*  - a URL is the record of the pieces urlparse splits it into; the       *)
(*    netloc and the path are sequences of tokens ("www" "ics" "uci" "edu",*)
(*    an optional ":port" token), so that str.endswith, ==, `in` and the    *)
(*    extension regex are computed on tokens, and str.lower() is a table;   *)
(*  - a page text is a sequence of characters, a word a sequence of         *)
(*    characters.                                                           *)
(* A Python value that is a set at one time and a list at another          *)
(* (unique_urls, the values of subdomains) carries its type.               *)
(***************************************************************************)
EXTENDS Integers, Sequences, FiniteSets, TLC

VARIABLES
    seen,       \* scraper.py: the module global `seen`
    data,       \* analytics.py: Analytics.data of the module global `analytics`
    file,       \* the content of analytics.json on disk
    up,         \* whether the crawler process is running
    workers,    \* the worker threads' positions inside add_page
    returned,   \* history: the link list each scraper() call of this process returned
    added,      \* history: the (url, text) of each add_page call that returned
    last        \* history: the number of callbacks so far, the input of the latest,
                \* and what the latest operation gave back or raised

vars == <<seen, data, file, up, workers, returned, added, last>>

----------------------------------------------------------------------------
(* Bounds of the model.                                                    *)

MaxCalls == 3

----------------------------------------------------------------------------
(* Generic helpers.                                                        *)

Range(s) == {s[i] : i \in DOMAIN s}

Perms(S) == {p \in [1..Cardinality(S) -> S] : \A i, j \in DOMAIN p : p[i] = p[j] => i = j}

Max(a, b) == IF a >= b THEN a ELSE b

----------------------------------------------------------------------------
(* str.lower() on the tokens and characters the model uses.                *)

LowerMap ==
    [t \in {"HTTP", "HTTPS", "FTP", "WWW", "ICS", "UCI", "EDU", "PDF", "Pdf", "HTML", "A", "B", "E'"} |->
        CASE t = "HTTP" -> "http"
          [] t = "HTTPS" -> "https"
          [] t = "FTP" -> "ftp"
          [] t = "WWW" -> "www"
          [] t = "ICS" -> "ics"
          [] t = "UCI" -> "uci"
          [] t = "EDU" -> "edu"
          [] t = "PDF" -> "pdf"
          [] t = "Pdf" -> "pdf"
          [] t = "HTML" -> "html"
          [] t = "A" -> "a"
          [] t = "B" -> "b"
          [] t = "E'" -> "e'"]

Lower(t) == IF t \in DOMAIN LowerMap THEN LowerMap[t] ELSE t

LowerSeq(s) == [i \in DOMAIN s |-> Lower(s[i])]

----------------------------------------------------------------------------
(* URLs.  A URL string is the record of its pieces:                        *)
(*   scheme "://" netloc "/" path.name [ "." path.ext ] [ "#" frag ]       *)
(* netloc is the sequence of its dot-separated labels, followed by a       *)
(* ":port" token when the URL names a port.  frag = "" is a URL without a  *)
(* fragment.                                                               *)

URL(scheme, netloc, name, ext, frag) ==
    [scheme |-> scheme, netloc |-> netloc, path |-> [name |-> name, ext |-> ext], frag |-> frag]

(* urllib.parse.urlparse: the scheme comes back lowercased, the netloc and *)
(* the path as written.                                                    *)
urlparse(url) ==
    [scheme |-> Lower(url.scheme), netloc |-> url.netloc, path |-> url.path, fragment |-> url.frag]

(* urllib.parse.urldefrag(url)[0]: a URL without '#' is returned as it is; *)
(* one with a fragment is parsed and put together again without it, which  *)
(* lowercases the scheme.                                                  *)
urldefrag(url) ==
    IF url.frag = "" THEN url
    ELSE [url EXCEPT !.scheme = Lower(@), !.frag = ""]

(* urllib.parse.urljoin(base, href).  An href is [abs, url]: an absolute   *)
(* href is its own URL (scheme lowercased by the parse); a relative one    *)
(* ("/name.ext#frag") takes scheme and netloc from the base.               *)
urljoin(base, href) ==
    IF href.abs
    THEN [href.url EXCEPT !.scheme = Lower(@)]
    ELSE [scheme |-> Lower(base.scheme), netloc |-> base.netloc,
          path |-> href.url.path, frag |-> href.url.frag]

(* scraper.py, is_valid: allowed_domains, each ".a.b.c" as its labels.     *)
allowed_domains ==
    << <<"ics", "uci", "edu">>, <<"cs", "uci", "edu">>,
       <<"informatics", "uci", "edu">>, <<"stat", "uci", "edu">> >>

(* hostname.endswith(domain), domain = "." + labels                        *)
EndsWithDomain(hostname, domain) ==
    /\ Len(hostname) > Len(domain)
    /\ SubSeq(hostname, Len(hostname) - Len(domain) + 1, Len(hostname)) = domain

(* the loop of is_valid over allowed_domains                               *)
is_allowed(hostname) ==
    \E i \in DOMAIN allowed_domains :
        EndsWithDomain(hostname, allowed_domains[i]) \/ hostname = allowed_domains[i]

(* the extensions of the regular expression of is_valid                    *)
DenyExt ==
    {"css", "js", "bmp", "gif", "jpg", "jpeg", "ico", "png", "tif", "tiff", "mid", "mp2",
     "mp3", "mp4", "wav", "avi", "mov", "mpeg", "ram", "m4v", "mkv", "ogg", "ogv", "pdf",
     "ps", "eps", "tex", "ppt", "pptx", "doc", "docx", "xls", "xlsx", "names", "data",
     "dat", "exe", "bz2", "tar", "msi", "bin", "7z", "psd", "dmg", "iso", "epub", "dll",
     "cnf", "tgz", "sha1", "thmx", "mso", "arff", "rtf", "jar", "csv", "rm", "smil",
     "wmv", "swf", "wma", "zip", "rar", "gz"}

(* re.match(r".*\.(...)$", path): the path ends in "." and a listed        *)
(* extension, compared as written (the caller lowercases).                 *)
ExtMatch(path) == path.ext \in DenyExt

PathLower(path) == [name |-> Lower(path.name), ext |-> Lower(path.ext)]

(* is_valid without its test of the seen set                               *)
is_valid_NoSeenTest(url, s) ==
    LET parsed == urlparse(url)
        hostname == LowerSeq(parsed.netloc)
    IN  IF parsed.scheme \notin {"http", "https"} THEN FALSE
        ELSE IF ~is_allowed(hostname) THEN FALSE
        ELSE IF ExtMatch(PathLower(parsed.path)) THEN FALSE
        ELSE TRUE

(* scraper.py, is_valid(url), reading the module global `seen` (s).        *)
is_valid(url, s) ==
    LET parsed == urlparse(url)
        hostname == LowerSeq(parsed.netloc)
    IN  IF parsed.scheme \notin {"http", "https"} THEN FALSE
        ELSE IF ~is_allowed(hostname) THEN FALSE
        ELSE IF url \in s THEN FALSE
        ELSE IF ExtMatch(PathLower(parsed.path)) THEN FALSE
        ELSE TRUE

----------------------------------------------------------------------------
(* Python values.  A value that the code holds as a set at one time and as *)
(* a list at another carries its type: [t, s, l].  A dict is the sequence  *)
(* of its items [k, v] in insertion order.                                 *)

PySet(S) == [t |-> "set", s |-> S, l |-> <<>>]

PyList(q) == [t |-> "list", s |-> {}, l |-> q]

(* set(x) for a list x; a set stays what it is                             *)
ToSet(x) == IF x.t = "list" THEN PySet(Range(x.l)) ELSE x

(* list(x) for a set x: its elements once each, in the order the set       *)
(* iterates, which depends on the process's string hashing: any order.     *)
ListsOf(x) == IF x.t = "set" THEN {PyList(p) : p \in Perms(x.s)} ELSE {x}

(* len(x)                                                                  *)
PyLen(x) == IF x.t = "set" THEN Cardinality(x.s) ELSE Len(x.l)

(* the elements of x, whatever its type                                    *)
Elems(x) == IF x.t = "set" THEN x.s ELSE Range(x.l)

DictKeys(d) == {d[i].k : i \in DOMAIN d}

(* d.get(k, default)                                                       *)
DictGet(d, k, default) ==
    IF k \in DictKeys(d)
    THEN d[CHOOSE i \in DOMAIN d : d[i].k = k].v
    ELSE default

(* d[k] = v: an existing key keeps its place, a new one goes last          *)
DictSet(d, k, v) ==
    IF k \in DictKeys(d)
    THEN [i \in DOMAIN d |-> IF d[i].k = k THEN [k |-> k, v |-> v] ELSE d[i]]
    ELSE Append(d, [k |-> k, v |-> v])

----------------------------------------------------------------------------
(* analytics.py                                                            *)

(* A character of a page text.  "e'" stands for a non-ASCII letter.        *)
IsAlnum(c) == c \in {"a", "b", "1"}

(* \w of the regular expression: letters of any alphabet, digits, "_"      *)
IsWordChar(c) == IsAlnum(c) \/ c \in {"_", "e'", "A", "B", "E'"}

(* Analytics._tokenize: re.findall(r'\b[a-z0-9]+\b', text.lower()).  The   *)
(* scan is at position i of the lowercased text t.  A match starts at i    *)
(* when i is a word boundary and t[i] is in [a-z0-9]; the greedy run       *)
(* reaches to j, and the match stands when j is a word boundary too (no    *)
(* shorter run ends at one, its next character being a word character);    *)
(* otherwise the scan goes on at i + 1.                                    *)
RECURSIVE RunEnd(_, _)
RunEnd(t, j) == IF j <= Len(t) /\ IsAlnum(t[j]) THEN RunEnd(t, j + 1) ELSE j

Boundary(t, i) ==
    LET before == i > 1 /\ IsWordChar(t[i - 1])
        after  == i <= Len(t) /\ IsWordChar(t[i])
    IN  before # after

RECURSIVE FindAll(_, _)
FindAll(t, i) ==
    IF i > Len(t) THEN <<>>
    ELSE LET j == RunEnd(t, i)
         IN  IF j > i /\ Boundary(t, i) /\ Boundary(t, j)
             THEN <<SubSeq(t, i, j - 1)>> \o FindAll(t, j)
             ELSE FindAll(t, i + 1)

_tokenize(text) == FindAll(LowerSeq(text), 1)

(* the empty string where the code holds it in place of a URL              *)
EmptyUrl == URL("", <<>>, "", "", "")

(* Analytics._load, the default structure                                  *)
DefaultData ==
    [unique_urls |-> PySet({}),
     longest_page |-> [url |-> EmptyUrl, word_count |-> 0],
     word_frequencies |-> <<>>,
     subdomains |-> <<>>]

(* The content of analytics.json: no file; a file that is no JSON document *)
(* (opened for writing and not written yet, written in part, or holding    *)
(* the bytes of two writers); or a complete JSON document.                 *)
NoFile == [kind |-> "missing", doc |-> DefaultData]

Truncated == [kind |-> "truncated", doc |-> DefaultData]

Document(d) == [kind |-> "json", doc |-> d]

(* A JSON document that parses and is not the document _save writes: the   *)
(* object {}.  It has none of the four keys, which the mark on unique_urls *)
(* stands for.                                                             *)
EmptyObject ==
    [unique_urls |-> [t |-> "missing", s |-> {}, l |-> <<>>],
     longest_page |-> [url |-> EmptyUrl, word_count |-> 0],
     word_frequencies |-> <<>>,
     subdomains |-> <<>>]

(* self.data["unique_urls"] and the other subscripts of self.data raise    *)
(* KeyError on a dict without the key                                      *)
RaisesKeyError(d) == d.unique_urls.t = "missing"

(* What an operation gave back: nothing yet, a result, or an exception.    *)
NoOut == [op |-> "", n |-> 0, stop |-> {}, result |-> <<>>]

Raised(exception) == [op |-> exception, n |-> 0, stop |-> {}, result |-> <<>>]

(* Analytics._load: json.load of the file when it exists; the default      *)
(* structure when it does not exist or does not parse.                     *)
_load(f) == IF f.kind = "json" THEN f.doc ELSE DefaultData

RECURSIVE SubdomainLists(_)
(* {k: list(v) for k, v in subdomains.items()}: every document the dict    *)
(* comprehension of _save can produce                                      *)
SubdomainLists(d) ==
    IF d = <<>> THEN {<<>>}
    ELSE {<<[k |-> d[1].k, v |-> v]>> \o rest : v \in ListsOf(d[1].v), rest \in SubdomainLists(Tail(d))}

(* _save that leaves the subdomains out of save_data                       *)
SaveData_NoSubdomains(d) ==
    {[unique_urls |-> u, longest_page |-> d.longest_page,
      word_frequencies |-> d.word_frequencies, subdomains |-> <<>>] :
        u \in ListsOf(d.unique_urls)}

(* Analytics._save: save_data, for every order list() can give             *)
SaveData(d) ==
    {[unique_urls |-> u, longest_page |-> d.longest_page,
      word_frequencies |-> d.word_frequencies, subdomains |-> sd] :
        u \in ListsOf(d.unique_urls), sd \in SubdomainLists(d.subdomains)}

(* add_page, lines 46-51: lists of a loaded document back to sets          *)
ConvertLoaded(d) ==
    [d EXCEPT !.unique_urls = ToSet(@),
              !.subdomains = [i \in DOMAIN @ |-> [k |-> @[i].k, v |-> ToSet(@[i].v)]]]

(* the comparison of add_page with >= in place of >                        *)
UpdateLongest_OnTies(lp, url, word_count) ==
    IF word_count >= lp.word_count
    THEN [url |-> url, word_count |-> word_count]
    ELSE lp

(* add_page, lines 60-65                                                   *)
UpdateLongest(lp, url, word_count) ==
    IF word_count > lp.word_count
    THEN [url |-> url, word_count |-> word_count]
    ELSE lp

RECURSIVE CountWords_FromZero(_, _)
(* the loop of add_page with get(word, 0) read as 0                        *)
CountWords_FromZero(wf, words) ==
    IF words = <<>> THEN wf
    ELSE CountWords_FromZero(DictSet(wf, Head(words), 0 + 1), Tail(words))

RECURSIVE CountWords(_, _)
(* add_page, lines 68-69: the loop over the page's words                   *)
CountWords(wf, words) ==
    IF words = <<>> THEN wf
    ELSE CountWords(DictSet(wf, Head(words), DictGet(wf, Head(words), 0) + 1), Tail(words))

(* "uci.edu" in hostname: a label ending in "uci" followed by one starting *)
(* with "edu"                                                              *)
ContainsUciEdu(hostname) ==
    \E i \in 1..(Len(hostname) - 1) :
        /\ hostname[i] \in {"uci", "fakeuci"}
        /\ hostname[i + 1] \in {"edu", "education"}

(* the subdomain's set replaced by {url} where the code adds to it         *)
TrackSubdomain_Replace(sd, url) ==
    LET hostname == LowerSeq(urlparse(url).netloc)
    IN  IF ContainsUciEdu(hostname) THEN DictSet(sd, hostname, PySet({url})) ELSE sd

(* add_page, lines 72-79                                                   *)
TrackSubdomain(sd, url) ==
    LET hostname == LowerSeq(urlparse(url).netloc)
    IN  IF ContainsUciEdu(hostname)
        THEN LET sd1 == IF hostname \notin DictKeys(sd)
                        THEN DictSet(sd, hostname, PySet({}))
                        ELSE sd
             IN  DictSet(sd1, hostname, PySet(DictGet(sd1, hostname, PySet({})).s \cup {url}))
        ELSE sd

(* Analytics.add_page, lines 46-79: the state in memory after the call     *)
add_page(d, url, text_content) ==
    LET d0 == ConvertLoaded(d)
        words == _tokenize(text_content)
        word_count == Len(words)
    IN  [unique_urls |-> PySet(d0.unique_urls.s \cup {url}),
         longest_page |-> UpdateLongest(d0.longest_page, url, word_count),
         word_frequencies |-> CountWords(d0.word_frequencies, words),
         subdomains |-> TrackSubdomain(d0.subdomains, url)]

----------------------------------------------------------------------------
(* The inputs of the callback: the URLs the frontier hands out and the     *)
(* responses the fetch layer gives back.                                   *)

ICS == <<"www", "ics", "uci", "edu">>

UrlA == URL("http", ICS, "a", "", "")

UrlB == URL("http", ICS, "b", "", "")

UrlC == URL("https", <<"cs", "uci", "edu">>, "c", "", "")

RequestUrls == {UrlA, UrlB, UrlC}

Abs(u) == [abs |-> TRUE, url |-> u]

Rel(name, ext, frag) == [abs |-> FALSE, url |-> URL("", <<>>, name, ext, frag)]

(* A response: resp.status, whether resp.raw_response is there, its        *)
(* Content-Type header, resp.url, resp.raw_response.url, and the page as   *)
(* the HTML parser gives it: the href of every <a> in document order and   *)
(* the text.                                                               *)
Response(status, raw, ctype, url, hrefs, text) ==
    [status |-> status, raw |-> raw, ctype |-> ctype, url |-> url, rawurl |-> url,
     hrefs |-> hrefs, text |-> text]

PageA ==
    Response(200, TRUE, "text/html; charset=utf-8", [UrlA EXCEPT !.frag = "top"],
             <<Abs(UrlB), Abs([UrlB EXCEPT !.frag = "x"]), Rel("a", "", ""),
               Abs(URL("http", <<"evil", "com">>, "a", "", "")), Rel("a", "PDF", ""), Abs(UrlC)>>,
             <<"a", " ", "b", " ", "A">>)

PageB ==
    Response(200, TRUE, "text/html", UrlB,
             <<Abs(UrlC), Rel("a", "", "x")>>,
             <<"b", "_", " ", "1", " ", "a", "b", " ", "b">>)

PageC ==
    Response(200, TRUE, "text/html", UrlC, <<>>, <<"e'", "a", " ", "_">>)

PageD ==
    Response(200, TRUE, "text/html", UrlC, <<Abs(UrlA)>>, <<"a">>)

HtmlPages == {PageA, PageB, PageC, PageD}

NotFoundA == [PageA EXCEPT !.status = 404]

NoBodyA == [PageA EXCEPT !.raw = FALSE]

PdfB == [PageB EXCEPT !.ctype = "application/pdf"]

NoTypeD == [PageD EXCEPT !.ctype = ""]

(* What the fetch layer can hand to the callback: a request URL and the    *)
(* response to it.  UrlC serves a page that changes between two fetches,   *)
(* and UrlB is also answered with the page of UrlA (a redirect).           *)
Fetches ==
    {<<UrlA, PageA>>, <<UrlA, NotFoundA>>,
     <<UrlB, PageB>>, <<UrlB, PdfB>>, <<UrlB, PageA>>,
     <<UrlC, PageC>>, <<UrlC, PageD>>, <<UrlC, NoTypeD>>, <<UrlC, NoBodyA>>}

----------------------------------------------------------------------------
(* scraper.py                                                              *)

(* "text/html" in resp.raw_response.headers.get("Content-Type", "")        *)
HasTextHtml(ctype) == ctype \in {"text/html", "text/html; charset=utf-8"}

(* extract_next_links without its test of the Content-Type                 *)
Fetched_AnyContentType(resp) ==
    IF resp.status # 200 \/ ~resp.raw THEN FALSE
    ELSE TRUE

(* extract_next_links, lines 32-35: the response is a page to read         *)
Fetched(resp) ==
    IF resp.status # 200 \/ ~resp.raw THEN FALSE
    ELSE IF ~HasTextHtml(resp.ctype) THEN FALSE
    ELSE TRUE

(* extract_next_links without its seen.add(url)                            *)
SeenAdd_Nothing(s, url) == s

(* extract_next_links, line 30: seen.add(url)                              *)
SeenAdd(s, url) == s \cup {url}

(* the loop of extract_next_links without its urldefrag                    *)
PageLinks_NoDefrag(resp) ==
    [i \in DOMAIN resp.hrefs |-> urljoin(resp.rawurl, resp.hrefs[i])]

(* extract_next_links, lines 52-58: the links of the page                  *)
PageLinks(resp) ==
    [i \in DOMAIN resp.hrefs |-> urldefrag(urljoin(resp.rawurl, resp.hrefs[i]))]

(* extract_next_links: the list it returns                                 *)
extract_next_links(resp) == IF Fetched(resp) THEN PageLinks(resp) ELSE <<>>

(* scraper, line 16: the links that is_valid lets through, `seen` being s  *)
FilterValid(links, s) ==
    LET Keep(link) == is_valid(link, s)
    IN  SelectSeq(links, Keep)

(* the worker threads, idle outside the concurrent specification           *)
NoWorkers == <<>>

Init ==
    /\ seen = {}
    /\ data = DefaultData
    /\ file = NoFile
    /\ up = TRUE
    /\ workers = NoWorkers
    /\ returned = <<>>
    /\ added = <<>>
    /\ last = [n |-> 0, url |-> EmptyUrl, resp |-> PageC, out |-> NoOut]

(* scraper(url, resp), run by one thread from call to return, or to the    *)
(* KeyError that add_page raises on a loaded document without the keys     *)
Scraper(url, resp) ==
    /\ up
    /\ last.n < MaxCalls
    /\ seen' = SeenAdd(seen, url)
    /\ IF Fetched(resp) /\ RaisesKeyError(data)
       THEN /\ last' = [n |-> last.n + 1, url |-> url, resp |-> resp, out |-> Raised("KeyError")]
            /\ UNCHANGED <<data, file, added, returned>>
       ELSE /\ IF Fetched(resp)
               THEN LET actual_url == urldefrag(resp.url)
                        d == add_page(data, actual_url, resp.text)
                    IN  /\ data' = d
                        /\ \E doc \in SaveData(d) : file' = Document(doc)
                        /\ added' = Append(added, [url |-> actual_url, text |-> resp.text])
               ELSE UNCHANGED <<data, file, added>>
            /\ returned' = Append(returned, FilterValid(extract_next_links(resp), seen'))
            /\ last' = [n |-> last.n + 1, url |-> url, resp |-> resp, out |-> NoOut]
    /\ UNCHANGED <<up, workers>>

(* The process ends between two callbacks and is started again: the module *)
(* globals are built anew, Analytics() loading the file.                   *)
Restart ==
    /\ up
    /\ seen' = {}
    /\ data' = _load(file)
    /\ returned' = <<>>
    /\ UNCHANGED <<file, up, workers, added, last>>

Next ==
    \/ \E f \in Fetches : Scraper(f[1], f[2])
    \/ Restart

Spec == Init /\ [][Next]_vars

----------------------------------------------------------------------------
(* The process killed inside _save.                                        *)

(* scraper(url, resp) on a page, up to line 37 of analytics.py: add_page   *)
(* has updated the state in memory and _save has opened analytics.json for *)
(* writing, which empties it; the process is killed before json.dump has   *)
(* written the whole document.  The call never returns.                    *)
InterruptedSave(url, resp) ==
    /\ up
    /\ last.n < MaxCalls
    /\ Fetched(resp)
    /\ file' = Truncated
    /\ up' = FALSE
    /\ seen' = {}
    /\ data' = DefaultData
    /\ returned' = <<>>
    /\ last' = [n |-> last.n + 1, url |-> url, resp |-> resp, out |-> NoOut]
    /\ UNCHANGED <<workers, added>>

(* The process is started after it was killed: scraper.py lines 7-11.      *)
Start ==
    /\ ~up
    /\ up' = TRUE
    /\ seen' = {}
    /\ data' = _load(file)
    /\ UNCHANGED <<file, workers, returned, added, last>>

NextCrash ==
    \/ \E f \in Fetches : Scraper(f[1], f[2])
    \/ Restart
    \/ \E f \in Fetches : InterruptedSave(f[1], f[2])
    \/ Start

SpecCrash == Init /\ [][NextCrash]_vars

----------------------------------------------------------------------------
(* Worker threads.  The framework's workers call scraper(url, resp) on the *)
(* same module globals with no lock between them, so a thread can be       *)
(* switched out between any two statements of add_page, and between the    *)
(* read and the write of one statement.  Each worker runs one callback; a  *)
(* step is one read or one write of the shared state.                      *)

Workers == {1, 2}

IdleWorker == [pc |-> "idle", url |-> EmptyUrl, resp |-> PageC, i |-> 0, tmp |-> 0, save |-> DefaultData]

(* the locals of worker w inside add_page                                  *)
WUrl(w) == urldefrag(workers[w].resp.url)

WWords(w) == _tokenize(workers[w].resp.text)

WHost(w) == LowerSeq(urlparse(WUrl(w)).netloc)

Goto(w, pc) == [workers EXCEPT ![w].pc = pc]

InitThreads ==
    /\ seen = {}
    /\ data = DefaultData
    /\ file = NoFile
    /\ up = TRUE
    /\ workers = [w \in Workers |-> IdleWorker]
    /\ returned = <<>>
    /\ added = <<>>
    /\ last = [n |-> 0, url |-> EmptyUrl, resp |-> PageC, out |-> NoOut]

(* scraper.py lines 13-35: the call, seen.add(url) and the early returns   *)
T_Call(w, url, resp) ==
    /\ workers[w].pc = "idle"
    /\ seen' = SeenAdd(seen, url)
    /\ last' = [n |-> last.n + 1, url |-> url, resp |-> resp, out |-> NoOut]
    /\ IF Fetched(resp)
       THEN /\ workers' = [workers EXCEPT ![w].pc = "unique", ![w].url = url, ![w].resp = resp]
            /\ returned' = returned
       ELSE /\ workers' = [workers EXCEPT ![w].pc = "done", ![w].url = url, ![w].resp = resp]
            /\ returned' = Append(returned, FilterValid(<<>>, seen'))
    /\ UNCHANGED <<data, file, up, added>>

(* analytics.py lines 46-54: unique_urls.add(url)                          *)
T_Unique(w) ==
    /\ workers[w].pc = "unique"
    /\ data' = [ConvertLoaded(data) EXCEPT !.unique_urls = PySet(@.s \cup {WUrl(w)})]
    /\ workers' = Goto(w, "longest_test")
    /\ UNCHANGED <<seen, file, up, returned, added, last>>

(* line 61: word_count > self.data["longest_page"]["word_count"]           *)
T_LongestTest(w) ==
    /\ workers[w].pc = "longest_test"
    /\ workers' = [workers EXCEPT
                     ![w].pc = IF Len(WWords(w)) > data.longest_page.word_count THEN "longest_set"
                               ELSE IF WWords(w) = <<>> THEN "subdomain_test"
                               ELSE "word_get",
                     ![w].i = 1]
    /\ UNCHANGED <<seen, data, file, up, returned, added, last>>

(* lines 62-65: self.data["longest_page"] = {...}                          *)
T_LongestSet(w) ==
    /\ workers[w].pc = "longest_set"
    /\ data' = [data EXCEPT !.longest_page = [url |-> WUrl(w), word_count |-> Len(WWords(w))]]
    /\ workers' = Goto(w, "word_get")
    /\ UNCHANGED <<seen, file, up, returned, added, last>>

(* line 69, right-hand side: word_frequencies.get(word, 0) + 1             *)
T_WordGet(w) ==
    /\ workers[w].pc = "word_get"
    /\ workers' = [workers EXCEPT
                     ![w].pc = "word_set",
                     ![w].tmp = DictGet(data.word_frequencies, WWords(w)[workers[w].i], 0) + 1]
    /\ UNCHANGED <<seen, data, file, up, returned, added, last>>

(* line 69, the store, and the loop's next word                            *)
T_WordSet(w) ==
    /\ workers[w].pc = "word_set"
    /\ data' = [data EXCEPT !.word_frequencies = DictSet(@, WWords(w)[workers[w].i], workers[w].tmp)]
    /\ workers' = [workers EXCEPT
                     ![w].pc = IF workers[w].i < Len(WWords(w)) THEN "word_get" ELSE "subdomain_test",
                     ![w].i = @ + 1]
    /\ UNCHANGED <<seen, file, up, returned, added, last>>

(* lines 72-77: the two tests before the subdomain is written              *)
T_SubdomainTest(w) ==
    /\ workers[w].pc = "subdomain_test"
    /\ workers' = Goto(w, IF ~ContainsUciEdu(WHost(w)) THEN "save_data"
                          ELSE IF WHost(w) \notin DictKeys(data.subdomains) THEN "subdomain_new"
                          ELSE "subdomain_add")
    /\ UNCHANGED <<seen, data, file, up, returned, added, last>>

(* line 78: self.data["subdomains"][subdomain] = set()                     *)
T_SubdomainNew(w) ==
    /\ workers[w].pc = "subdomain_new"
    /\ data' = [data EXCEPT !.subdomains = DictSet(@, WHost(w), PySet({}))]
    /\ workers' = Goto(w, "subdomain_add")
    /\ UNCHANGED <<seen, file, up, returned, added, last>>

(* line 79: self.data["subdomains"][subdomain].add(url)                    *)
T_SubdomainAdd(w) ==
    /\ workers[w].pc = "subdomain_add"
    /\ data' = [data EXCEPT !.subdomains =
                  DictSet(@, WHost(w), PySet(DictGet(@, WHost(w), PySet({})).s \cup {WUrl(w)}))]
    /\ workers' = Goto(w, "save_data")
    /\ UNCHANGED <<seen, file, up, returned, added, last>>

(* _save, lines 31-36: save_data.  The lists are copies made now; the      *)
(* longest_page record is the one of now (add_page replaces it, never      *)
(* changes it); word_frequencies is the dict itself.                       *)
T_SaveData(w) ==
    /\ workers[w].pc = "save_data"
    /\ \E doc \in SaveData(data) : workers' = [workers EXCEPT ![w].pc = "save_open", ![w].save = doc]
    /\ UNCHANGED <<seen, data, file, up, returned, added, last>>

(* _save, line 37: open(self.save_file, 'w')                               *)
T_SaveOpen(w) ==
    /\ workers[w].pc = "save_open"
    /\ file' = Truncated
    /\ workers' = Goto(w, "save_dump")
    /\ UNCHANGED <<seen, data, up, returned, added, last>>

(* _save, line 38: json.dump, writing from the start of the file.  When    *)
(* another thread has written since this one opened the file, the bytes of *)
(* the two documents lie over each other: what is left is this document or *)
(* no document, by their lengths.  Then add_page returns, and scraper.py   *)
(* lines 52-58 and 16 build and filter the links.                          *)
T_SaveDump(w) ==
    /\ workers[w].pc = "save_dump"
    /\ LET doc == [workers[w].save EXCEPT !.word_frequencies = data.word_frequencies]
       IN  IF file.kind = "json"
           THEN file' \in {Document(doc), Truncated}
           ELSE file' = Document(doc)
    /\ added' = Append(added, [url |-> WUrl(w), text |-> workers[w].resp.text])
    /\ returned' = Append(returned, FilterValid(PageLinks(workers[w].resp), seen))
    /\ workers' = Goto(w, "done")
    /\ UNCHANGED <<seen, data, up, last>>

NextThreads ==
    \/ \E w \in Workers, f \in Fetches : T_Call(w, f[1], f[2])
    \/ \E w \in Workers : T_Unique(w)
    \/ \E w \in Workers : T_LongestTest(w)
    \/ \E w \in Workers : T_LongestSet(w)
    \/ \E w \in Workers : T_WordGet(w)
    \/ \E w \in Workers : T_WordSet(w)
    \/ \E w \in Workers : T_SubdomainTest(w)
    \/ \E w \in Workers : T_SubdomainNew(w)
    \/ \E w \in Workers : T_SubdomainAdd(w)
    \/ \E w \in Workers : T_SaveData(w)
    \/ \E w \in Workers : T_SaveOpen(w)
    \/ \E w \in Workers : T_SaveDump(w)

SpecThreads == InitThreads /\ [][NextThreads]_vars

----------------------------------------------------------------------------
(* is_valid on its own: one link, of any scheme, netloc and extension,     *)
(* goes through line 16 of scraper.py.                                     *)

ScopeSchemes == {"http", "https", "HTTP", "ftp"}

ScopeNetlocs ==
    {<<"ics", "uci", "edu">>, <<"www", "ics", "uci", "edu">>, <<"WWW", "ICS", "UCI", "EDU">>,
     <<"cs", "uci", "edu">>, <<"informatics", "uci", "edu">>, <<"vision", "stat", "uci", "edu">>,
     <<"uci", "edu">>, <<"evil", "com">>, <<"ics", "uci", "edu", "evil", "com">>,
     <<"xics", "uci", "edu">>, <<"www", "ics", "uci", "edu", ":8080">>, <<"ics", "uci", "edu", ":443">>}

ScopeExts == {"", "html", "php", "pdf", "PDF", "Pdf", "gz"}

ScopeUrls == {URL(sc, nl, "a", ex, "") : sc \in ScopeSchemes, nl \in ScopeNetlocs, ex \in ScopeExts}

InitScope ==
    /\ \E u \in ScopeUrls :
         /\ last = [n |-> 0, url |-> u, resp |-> PageC, out |-> NoOut]
         /\ seen \in {{}, {u}, {UrlA}}
    /\ data = DefaultData
    /\ file = NoFile
    /\ up = TRUE
    /\ workers = NoWorkers
    /\ returned = <<>>
    /\ added = <<>>

(* scraper, line 16, for the one link last.url                             *)
CheckLink ==
    /\ last.n = 0
    /\ returned' = Append(returned, FilterValid(<<last.url>>, seen))
    /\ last' = [last EXCEPT !.n = 1]
    /\ UNCHANGED <<seen, data, file, up, workers, added>>

NextScope == CheckLink

SpecScope == InitScope /\ [][NextScope]_vars

----------------------------------------------------------------------------
(* Read operations of analytics.py                                         *)

(* Analytics.get_unique_page_count                                         *)
get_unique_page_count(d) == PyLen(d.unique_urls)

(* Analytics.get_longest_page                                              *)
get_longest_page(d) == d.longest_page

----------------------------------------------------------------------------
(* Pages at other hosts.  resp.url is the URL the fetch ended at, which a  *)
(* redirect can put at any host; the links of a page name hosts in any     *)
(* letter case.                                                            *)

UPPER == <<"WWW", "ICS", "UCI", "EDU">>

(* "http://WWW.ICS.UCI.EDU/a", as urljoin gives it for such an href         *)
UrlAUpper == URL("http", UPPER, "a", "", "")

HostPage(url, hrefs, text) == Response(200, TRUE, "text/html", url, hrefs, text)

PageCase ==
    HostPage(UrlA, <<Abs(URL("HTTP", UPPER, "a", "", "")), Abs([UrlA EXCEPT !.frag = "x"]), Abs(UrlB)>>,
             <<"a">>)

PageUpper == HostPage(UrlAUpper, <<Rel("a", "", ""), Abs(UrlA)>>, <<"a", " ", "b">>)

PageFake == HostPage(URL("http", <<"fakeuci", "edu">>, "a", "", ""), <<>>, <<"b">>)

PageEvil == HostPage(URL("http", <<"uci", "edu", "evil", "com">>, "a", "", ""), <<>>, <<"b">>)

PagePort == HostPage(URL("http", <<"www", "ics", "uci", "edu", ":8080">>, "a", "", ""), <<>>, <<"1">>)

PageOff == HostPage(URL("http", <<"evil", "com">>, "a", "", ""), <<Abs(UrlA)>>, <<"a", " ", "1">>)

PageRoot == HostPage(URL("https", <<"uci", "edu">>, "a", "", ""), <<Abs(UrlB)>>, <<"1">>)

HostFetches ==
    {<<UrlA, PageCase>>, <<UrlAUpper, PageUpper>>, <<UrlB, PageFake>>, <<UrlB, PageEvil>>,
     <<UrlC, PagePort>>, <<UrlC, PageOff>>, <<UrlB, PageRoot>>}

NextHosts ==
    \/ \E f \in HostFetches : Scraper(f[1], f[2])
    \/ Restart

SpecHosts == Init /\ [][NextHosts]_vars

(* the words left after the filter of get_top_words, lines 109-112         *)
FilterStopWords(wf, stop_words) ==
    LET Keep(item) == item.k \notin stop_words
    IN  SelectSeq(wf, Keep)

(* most_common that takes the first n items as the dict holds them         *)
MostCommon_FirstN(items, n) ==
    [i \in 1..(IF n <= 0 THEN 0 ELSE IF n < Len(items) THEN n ELSE Len(items)) |->
        <<items[i].k, items[i].v>>]

RECURSIVE MostCommon(_, _)
(* Counter.most_common(n): the n items of the largest counts, largest      *)
(* first, items of one count in the order the dict holds them; none for    *)
(* n <= 0                                                                  *)
MostCommon(items, n) ==
    IF n <= 0 \/ items = <<>> THEN <<>>
    ELSE LET i == CHOOSE i \in DOMAIN items :
                    /\ \A j \in DOMAIN items : items[j].v <= items[i].v
                    /\ \A j \in 1..(i - 1) : items[j].v < items[i].v
             rest == SubSeq(items, 1, i - 1) \o SubSeq(items, i + 1, Len(items))
         IN  << <<items[i].k, items[i].v>> >> \o MostCommon(rest, n - 1)

(* Analytics.get_top_words(n, stop_words)                                  *)
get_top_words(d, n, stop_words) == MostCommon(FilterStopWords(d.word_frequencies, stop_words), n)

(* The labels of the model's hostnames in the order of Python's string     *)
(* comparison; a port comes after every label that can stand in its place. *)
LabelOrder ==
    <<"com", "cs", "edu", "education", "evil", "fakeuci", "ics", "informatics", "stat", "uci",
      "vision", "www", "xics", ":443", ":8080">>

LabelRank(label) == CHOOSE i \in DOMAIN LabelOrder : LabelOrder[i] = label

RECURSIVE HostLess(_, _)
(* a < b for two hostname strings                                          *)
HostLess(a, b) ==
    IF a = <<>> THEN b # <<>>
    ELSE IF b = <<>> THEN FALSE
    ELSE IF a[1] = b[1] THEN HostLess(Tail(a), Tail(b))
    ELSE LabelRank(a[1]) < LabelRank(b[1])

RECURSIVE SortByHost(_)
(* list.sort(key=lambda x: x[0]) on (subdomain, count) pairs               *)
SortByHost(pairs) ==
    IF pairs = <<>> THEN <<>>
    ELSE LET i == CHOOSE i \in DOMAIN pairs :
                    /\ \A j \in DOMAIN pairs : ~HostLess(pairs[j][1], pairs[i][1])
                    /\ \A j \in 1..(i - 1) : HostLess(pairs[i][1], pairs[j][1])
             rest == SubSeq(pairs, 1, i - 1) \o SubSeq(pairs, i + 1, Len(pairs))
         IN  <<pairs[i]>> \o SortByHost(rest)

(* Analytics.get_subdomains                                                *)
get_subdomains(d) ==
    SortByHost([i \in DOMAIN d.subdomains |-> <<d.subdomains[i].k, PyLen(d.subdomains[i].v)>>])

(* stop_words.txt: whether it exists, and its lines as sequences of        *)
(* characters                                                              *)
NoStopFile == [exists |-> FALSE, lines |-> <<>>]

StopFile(lines) == [exists |-> TRUE, lines |-> lines]

StopFiles ==
    {NoStopFile,
     StopFile(<< <<"A", " ", "\n">>, <<"\n">> >>),
     StopFile(<< <<"a", "\n">>, <<" ", "b">> >>)}

IsSpace(c) == c \in {" ", "\n"}

RECURSIVE Strip(_)
(* str.strip()                                                             *)
Strip(line) ==
    IF line = <<>> THEN line
    ELSE IF IsSpace(Head(line)) THEN Strip(Tail(line))
    ELSE IF IsSpace(line[Len(line)]) THEN Strip(SubSeq(line, 1, Len(line) - 1))
    ELSE line

(* generate_report, lines 135-138: the stop words                          *)
StopWords(f) == IF f.exists THEN {LowerSeq(Strip(f.lines[i])) : i \in DOMAIN f.lines} ELSE {}

(* a line of the report: its fixed text and the values formatted into it   *)
Line(text, url, word, num) == [text |-> text, url |-> url, word |-> word, num |-> num]

Text(text) == Line(text, EmptyUrl, <<>>, 0)

(* Analytics.generate_report: the lines it joins                           *)
generate_report(d, stop_words_file) ==
    LET stop_words == StopWords(stop_words_file)
        longest == get_longest_page(d)
        top_words == get_top_words(d, 50, stop_words)
        subdomains == get_subdomains(d)
    IN  <<Text("===="), Text("WEB CRAWLER ANALYTICS REPORT"), Text("===="), Text(""),
          Line("1. Number of unique pages:", EmptyUrl, <<>>, get_unique_page_count(d)), Text(""),
          Text("2. Longest page (by word count):"),
          Line("   URL:", longest.url, <<>>, 0),
          Line("   Word count:", EmptyUrl, <<>>, longest.word_count), Text(""),
          Text("3. 50 most common words:")>>
        \o [i \in DOMAIN top_words |-> Line("   {i}. {word}: {count}", EmptyUrl, top_words[i][1], top_words[i][2])]
        \o <<Text(""), Text("4. Subdomains in uci.edu domain:")>>
        \o [i \in DOMAIN subdomains |-> Line("   {subdomain}, {count}", EmptyUrl, subdomains[i][1], subdomains[i][2])]
        \o <<Text(""), Text("====")>>

----------------------------------------------------------------------------
(* The analytics object from its construction on whatever analytics.json   *)
(* holds, the callbacks, and the read operations, which generate_report.py *)
(* and the crawler's operator call between callbacks.                      *)

MaxTop == 2

(* what the file can hold when Analytics() is constructed                  *)
LoadFiles == {NoFile, Truncated, Document(EmptyObject)}

StopSets == {StopWords(f) : f \in StopFiles}

(* the pages the fetch layer serves here                                   *)
ReportFetches == {<<UrlA, PageA>>, <<UrlB, PageB>>, <<UrlC, PageD>>}

Returns(op, n, stop_words, result) == [op |-> op, n |-> n, stop |-> stop_words, result |-> result]

(* a read operation on self.data: the KeyError of the first subscript, or  *)
(* the result; nothing is assigned                                         *)
ReadOp(out) ==
    /\ up
    /\ last' = [last EXCEPT !.out = IF RaisesKeyError(data) THEN Raised("KeyError") ELSE out]
    /\ UNCHANGED <<seen, data, file, up, workers, returned, added>>

InitReport ==
    /\ seen = {}
    /\ file \in LoadFiles
    /\ data = _load(file)
    /\ up = TRUE
    /\ workers = NoWorkers
    /\ returned = <<>>
    /\ added = <<>>
    /\ last = [n |-> 0, url |-> EmptyUrl, resp |-> PageC, out |-> NoOut]

GetUniquePageCount == ReadOp(Returns("get_unique_page_count", 0, {}, <<get_unique_page_count(data)>>))

GetLongestPage == ReadOp(Returns("get_longest_page", 0, {}, <<get_longest_page(data)>>))

(* get_top_words that filters the stop words out of word_frequencies       *)
(* itself                                                                  *)
GetTopWords_InPlace(n, stop_words) ==
    /\ up
    /\ ~RaisesKeyError(data)
    /\ data' = [data EXCEPT !.word_frequencies = FilterStopWords(@, stop_words)]
    /\ last' = [last EXCEPT !.out = Returns("get_top_words", n, stop_words,
                                            get_top_words(data, n, stop_words))]
    /\ UNCHANGED <<seen, file, up, workers, returned, added>>

GetTopWords(n, stop_words) ==
    ReadOp(Returns("get_top_words", n, stop_words, get_top_words(data, n, stop_words)))

GetSubdomains == ReadOp(Returns("get_subdomains", 0, {}, get_subdomains(data)))

GenerateReport(stop_words_file) ==
    ReadOp(Returns("generate_report", 0, StopWords(stop_words_file),
                   generate_report(data, stop_words_file)))

NextReport ==
    \/ \E f \in ReportFetches : Scraper(f[1], f[2])
    \/ Restart
    \/ GetUniquePageCount
    \/ GetLongestPage
    \/ \E n \in 0..MaxTop, stop_words \in StopSets : GetTopWords(n, stop_words)
    \/ GetSubdomains
    \/ \E f \in StopFiles : GenerateReport(f)

SpecReport == InitReport /\ [][NextReport]_vars

----------------------------------------------------------------------------
(* _tokenize on its own: one page of any text goes through the callback.   *)

MaxLen == 4

(* a letter in both cases, a digit, the underscore, a non-ASCII letter and *)
(* a space                                                                  *)
TextChars == {"a", "A", "1", "_", "e'", " "}

Texts == UNION {[1..n -> TextChars] : n \in 0..MaxLen}

InitTokenize ==
    /\ seen = {}
    /\ data = DefaultData
    /\ file = NoFile
    /\ up = TRUE
    /\ workers = NoWorkers
    /\ returned = <<>>
    /\ added = <<>>
    /\ \E t \in Texts :
         last = [n |-> 0, url |-> EmptyUrl, resp |-> [PageC EXCEPT !.text = t], out |-> NoOut]

(* scraper(url, resp) for the page of last.resp                            *)
TokenizePage ==
    /\ last.n = 0
    /\ Scraper(UrlC, last.resp)

NextTokenize == TokenizePage

SpecTokenize == InitTokenize /\ [][NextTokenize]_vars

----------------------------------------------------------------------------
(* What the properties speak of.                                           *)

(* the number of tokens of a page that was added                           *)
TokenCount(page) == Len(_tokenize(page.text))

RECURSIVE MaxCount(_)
(* the largest token count among pages, 0 when there is none               *)
MaxCount(pages) ==
    IF pages = <<>> THEN 0 ELSE Max(TokenCount(Head(pages)), MaxCount(Tail(pages)))

(* the URL of the first of pages that has n tokens                         *)
FirstWithCount(pages, n) ==
    pages[CHOOSE i \in DOMAIN pages :
            /\ TokenCount(pages[i]) = n
            /\ \A j \in 1..(i - 1) : TokenCount(pages[j]) # n].url

RECURSIVE TotalTokens(_)
TotalTokens(pages) ==
    IF pages = <<>> THEN 0 ELSE TokenCount(Head(pages)) + TotalTokens(Tail(pages))

(* how often word is among the tokens of text                              *)
OccurrencesIn(word, text) ==
    LET toks == _tokenize(text) IN Cardinality({i \in DOMAIN toks : toks[i] = word})

RECURSIVE Occurrences(_, _)
Occurrences(word, pages) ==
    IF pages = <<>> THEN 0
    ELSE OccurrencesIn(word, Head(pages).text) + Occurrences(word, Tail(pages))

RECURSIVE SumCounts(_)
(* sum(word_frequencies.values())                                          *)
SumCounts(wf) == IF wf = <<>> THEN 0 ELSE Head(wf).v + SumCounts(Tail(wf))

(* every word a page of the model can hold                                 *)
PageWords == UNION {Range(_tokenize(p.text)) : p \in HtmlPages}

(* the subdomains dict as a map from hostname to the set of its URLs       *)
SubdomainMap(d) == {<<d.subdomains[i].k, Elems(d.subdomains[i].v)>> : i \in DOMAIN d.subdomains}

(* the four fields of two analytics states agree, sets compared as sets    *)
SameState(a, b) ==
    /\ Elems(a.unique_urls) = Elems(b.unique_urls)
    /\ a.longest_page = b.longest_page
    /\ a.word_frequencies = b.word_frequencies
    /\ SubdomainMap(a) = SubdomainMap(b)

RECURSIVE Replay(_)
(* the state that add_page builds from the empty one, page after page      *)
Replay(pages) ==
    IF pages = <<>> THEN DefaultData
    ELSE add_page(Replay(SubSeq(pages, 1, Len(pages) - 1)),
                  pages[Len(pages)].url, pages[Len(pages)].text)

(* a response the callback is to drop: not 200, no body, or not HTML       *)
NotAPage(resp) ==
    \/ resp.status # 200
    \/ ~resp.raw
    \/ resp.ctype \in {"application/pdf", ""}

(* the URLs is_valid is asked about: the frontier's and every page's links *)
Candidates == RequestUrls \cup UNION {Range(PageLinks(p)) : p \in HtmlPages}

----------------------------------------------------------------------------
(* C1 (stated as the claim has it): no URL is returned twice by the        *)
(* callbacks of one process, neither twice in one returned list nor in the *)
(* lists of two calls.                                                     *)
C1_EachUrlReturnedOnce ==
    \A i, j \in DOMAIN returned :
        \A m \in DOMAIN returned[i], n \in DOMAIN returned[j] :
            returned[i][m] = returned[j][n] => (i = j /\ m = n)

(* C2 (stated as the claim has it): when the workers, called on different  *)
(* pages, have all returned, the analytics state is the one some serial    *)
(* order of their add_page calls builds: the same URL set, longest page,   *)
(* subdomain map and count of every word.                                  *)
C2_AddPageSerializable ==
    (/\ \A w \in Workers : workers[w].pc = "done"
     /\ \A v, w \in Workers : v # w => workers[v].url # workers[w].url /\ WUrl(v) # WUrl(w)) =>
        \E order \in Perms(DOMAIN added) :
            LET serial == Replay([i \in DOMAIN added |-> added[order[i]]])
            IN  /\ Elems(data.unique_urls) = Elems(serial.unique_urls)
                /\ data.longest_page = serial.longest_page
                /\ SubdomainMap(data) = SubdomainMap(serial)
                /\ \A w \in PageWords \cup DictKeys(data.word_frequencies) :
                     DictGet(data.word_frequencies, w, 0) = DictGet(serial.word_frequencies, w, 0)

(* C3 (stated as the claim has it): when the process is killed inside      *)
(* _save, loading analytics.json gives the complete state saved before or  *)
(* the complete new state.                                                 *)
C3_CrashAtomicSave ==
    [][(up /\ ~up') =>
          \/ _load(file') = _load(file)
          \/ _load(file') \in
               SaveData(add_page(data, urldefrag(last'.resp.url), last'.resp.text))]_vars

(* C4 (stated as the claim has it): at every point after add_page has      *)
(* returned for a page, what a new process loads from analytics.json holds *)
(* the page's URL, counts each of its words at least as often as the page  *)
(* has it, and has a longest page of at least its token count.             *)
C4_AcknowledgedPagesDurable ==
    \A i \in DOMAIN added :
        LET loaded == _load(file)
        IN  /\ added[i].url \in Elems(loaded.unique_urls)
            /\ \A w \in PageWords :
                 DictGet(loaded.word_frequencies, w, 0) >= OccurrencesIn(w, added[i].text)
            /\ loaded.longest_page.word_count >= TokenCount(added[i])

(* C5: whenever analytics.json holds a document, loading it gives the      *)
(* state in memory (the same URL set, longest page, word frequencies and   *)
(* subdomain map), the read operations answer the same on both, and        *)
(* add_page of any page leads both to the same state.                      *)
C5_RoundTrip ==
    file.kind = "json" =>
        LET loaded == _load(file)
        IN  /\ SameState(loaded, data)
            /\ get_unique_page_count(loaded) = get_unique_page_count(data)
            /\ get_longest_page(loaded) = get_longest_page(data)
            /\ \A p \in HtmlPages :
                 add_page(loaded, urldefrag(p.url), p.text) = add_page(data, urldefrag(p.url), p.text)

(* C5 witness: a callback has just saved two URLs under a subdomain, and   *)
(* the state in memory is the one add_page built (sets), not a loaded one. *)
C5_Witness ==
    /\ file.kind = "json"
    /\ data.unique_urls.t = "set"
    /\ file.doc.unique_urls.t = "list"
    /\ Cardinality(data.unique_urls.s) >= 2
    /\ \E i \in DOMAIN data.subdomains : Cardinality(data.subdomains[i].v.s) >= 2

(* C6 (stated as the claim has it): longest_page is the earliest added     *)
(* page among those with the largest token count.                          *)
C6_LongestIsEarliestMax ==
    added # <<>> =>
        data.longest_page =
            [url |-> FirstWithCount(added, MaxCount(added)), word_count |-> MaxCount(added)]

(* C6 (amended): longest_page.word_count is the largest token count of the *)
(* pages added so far; when that is positive longest_page.url is the       *)
(* earliest page that has it, and as long as it is 0 longest_page is the   *)
(* initial record with the empty URL.  From one step to the next the       *)
(* word count never decreases, and the record changes only to one of a     *)
(* strictly greater count.                                                 *)
C6_LongestPage ==
    /\ [](/\ data.longest_page.word_count = MaxCount(added)
          /\ MaxCount(added) > 0 =>
               data.longest_page.url = FirstWithCount(added, MaxCount(added))
          /\ MaxCount(added) = 0 => data.longest_page.url = EmptyUrl)
    /\ [][/\ data'.longest_page.word_count >= data.longest_page.word_count
          /\ data'.longest_page # data.longest_page =>
               data'.longest_page.word_count > data.longest_page.word_count]_vars

(* C6 witness: two pages tie for the largest count, a shorter one came     *)
(* later, and the process was restarted in between.                        *)
C6_Witness ==
    /\ Len(added) >= 3
    /\ MaxCount(added) > 0
    /\ \E i, j \in DOMAIN added :
         /\ i < j
         /\ added[i].url # added[j].url
         /\ TokenCount(added[i]) = MaxCount(added)
         /\ TokenCount(added[j]) = MaxCount(added)
    /\ TokenCount(added[Len(added)]) < MaxCount(added)
    /\ Len(returned) < last.n

(* C7: the counts of word_frequencies sum to the number of tokens of all   *)
(* pages added, and each word's count is the number of its occurrences in  *)
(* them.                                                                   *)
C7_WordFrequencySum ==
    /\ SumCounts(data.word_frequencies) = TotalTokens(added)
    /\ \A w \in PageWords \cup DictKeys(data.word_frequencies) :
         DictGet(data.word_frequencies, w, 0) = Occurrences(w, added)

(* C7 witness: two pages were added and a word occurs in both, and twice   *)
(* in one of them.                                                         *)
C7_Witness ==
    /\ Len(added) >= 2
    /\ \E w \in PageWords :
         /\ OccurrencesIn(w, added[1].text) >= 2
         /\ OccurrencesIn(w, added[2].text) >= 1
         /\ added[1].text # added[2].text

(* C8: a callback on a response that is not 200, has no body or is not     *)
(* HTML returns the empty list, leaves the analytics state and the file as *)
(* they are, calls no add_page, and has its request URL in the seen set.   *)
C8_FailedResponse ==
    [][(last'.n = last.n + 1 /\ NotAPage(last'.resp)) =>
          /\ returned' = Append(returned, <<>>)
          /\ data' = data
          /\ file' = file
          /\ added' = added
          /\ last'.url \in seen']_vars

(* C8 witness: the latest callback got such a response for a URL that was  *)
(* not seen before, after a page had been recorded.                        *)
C8_Witness ==
    /\ last.n >= 2
    /\ NotAPage(last.resp)
    /\ added # <<>>
    /\ file.kind = "json"
    /\ returned # <<>>
    /\ returned[Len(returned)] = <<>>
    /\ last.url \in seen

HostOf(netloc) ==
    LET IsLabel(t) == t \notin {":8080", ":443"}
    IN  LowerSeq(SelectSeq(netloc, IsLabel))

(* the scope rule as the specification states it: scheme http or https,    *)
(* the host an allowed root domain or a subdomain of one, and no           *)
(* denylisted extension, host and extension in any letter case             *)
ScopeRule(url) ==
    /\ Lower(url.scheme) \in {"http", "https"}
    /\ \E i \in DOMAIN allowed_domains :
         LET root == allowed_domains[i]
             host == HostOf(url.netloc)
         IN  \E k \in 0..Len(host) : Len(host) - k = Len(root) /\ SubSeq(host, k + 1, Len(host)) = root
    /\ Lower(url.path.ext) \notin DenyExt

(* C10 (stated as the claim has it): is_valid accepts a link only if it    *)
(* meets the scope rule, and every link that meets it and has not been     *)
(* seen is accepted: every allowed root domain and every subdomain of one  *)
(* qualifies.                                                              *)
C10_ScopeRule ==
    last.n = 1 /\ returned # <<>> =>
        LET accepted == returned[1] = <<last.url>>
        IN  /\ accepted => ScopeRule(last.url)
            /\ (ScopeRule(last.url) /\ last.url \notin seen) => accepted

(* the hostname rule of the subdomain map as the specification states it:  *)
(* a lowercase hostname, no port, that is uci.edu or ends in .uci.edu      *)
IsUciHost(key) ==
    /\ key = HostOf(key)
    /\ Len(key) >= 2
    /\ SubSeq(key, Len(key) - 1, Len(key)) = <<"uci", "edu">>

(* C11 (stated as the claim has it): every key of the subdomains map is a  *)
(* lowercase hostname that is uci.edu or ends in .uci.edu, and a callback  *)
(* on a page whose hostname is neither leaves the subdomains map as it is. *)
C11_SubdomainKeys ==
    /\ [](\A k \in DictKeys(data.subdomains) : IsUciHost(k))
    /\ [][(Len(added') = Len(added) + 1
           /\ ~IsUciHost(HostOf(added'[Len(added')].url.netloc))) =>
             SubdomainMap(data') = SubdomainMap(data)]_vars

(* a store that load cannot take for an analytics document: no file, no    *)
(* JSON, or JSON that is not the document of the four fields               *)
Malformed(f) == f.kind # "json" \/ f.doc.unique_urls.t # "list"

(* C12 (stated as the claim has it): when analytics.json is missing or     *)
(* malformed, loading it gives the fresh empty state, and no callback and  *)
(* no read operation on the analytics object raises.                       *)
C12_LoadRecovery ==
    /\ Malformed(file) => _load(file) = DefaultData
    /\ (Malformed(file) /\ last.n = 0) => data = DefaultData
    /\ last.out.op # "KeyError"

RECURSIVE IsSubsequence(_, _)
(* a is b with some of its entries left out, the order kept                *)
IsSubsequence(a, b) ==
    IF a = <<>> THEN TRUE
    ELSE IF b = <<>> THEN FALSE
    ELSE IF Head(a) = Head(b) THEN IsSubsequence(Tail(a), Tail(b))
    ELSE IsSubsequence(a, Tail(b))

(* C13: the list a callback returns for a 200 HTML response holds only     *)
(* URLs without a fragment that meet the scope rule and were not in the    *)
(* seen set when the call began, and it is a subsequence of the page's     *)
(* hrefs, each joined to the response URL and defragmented, in document    *)
(* order.                                                                  *)
C13_FrontierOutput ==
    [][(last'.n = last.n + 1 /\ ~NotAPage(last'.resp)) =>
          /\ Len(returned') = Len(returned) + 1
          /\ LET links == returned'[Len(returned')]
             IN  /\ \A i \in DOMAIN links :
                      /\ links[i].frag = ""
                      /\ ScopeRule(links[i])
                      /\ links[i] \notin seen
                 /\ IsSubsequence(links, PageLinks(last'.resp))]_vars

(* C13 witness: the latest callback returned two links or more of a page   *)
(* that also has an href with a fragment, a link out of scope and a link   *)
(* that had been fetched.                                                  *)
C13_Witness ==
    /\ last.n >= 2
    /\ ~NotAPage(last.resp)
    /\ returned # <<>>
    /\ Len(returned[Len(returned)]) >= 2
    /\ \E i \in DOMAIN last.resp.hrefs : last.resp.hrefs[i].url.frag # ""
    /\ \E i \in DOMAIN PageLinks(last.resp) : ~ScopeRule(PageLinks(last.resp)[i])
    /\ \E i \in DOMAIN PageLinks(last.resp) :
         /\ ScopeRule(PageLinks(last.resp)[i])
         /\ PageLinks(last.resp)[i] \in seen \ {last.url}

(* a step that is a read operation: no callback, and a new result          *)
ReadStep == last'.n = last.n /\ last'.out # last.out

(* C14: get_unique_page_count, get_longest_page, get_top_words,            *)
(* get_subdomains and generate_report leave the analytics state in memory  *)
(* and analytics.json as they are, word_frequencies with its stop words    *)
(* included; and the text of a report is the text that generating it anew  *)
(* on the state, with any stop-word file of the same stop words, gives.    *)
C14_ReadsArePure ==
    /\ [][ReadStep => (data' = data /\ file' = file /\ seen' = seen)]_vars
    /\ [](last.out.op = "generate_report" =>
            \A f \in StopFiles :
                StopWords(f) = last.out.stop => generate_report(data, f) = last.out.result)

(* C14 witness: a report was generated with a stop word that              *)
(* word_frequencies counts, on a state of two subdomains that was saved.   *)
C14_Witness ==
    /\ last.out.op = "generate_report"
    /\ last.out.stop \cap DictKeys(data.word_frequencies) # {}
    /\ Len(data.subdomains) >= 2
    /\ Len(data.word_frequencies) >= 3
    /\ file.kind = "json"

(* the (word, count) pairs a report lists under its third heading          *)
ReportWords(report) ==
    LET IsWordLine(line) == line.text = "   {i}. {word}: {count}"
        lines == SelectSeq(report, IsWordLine)
    IN  [i \in DOMAIN lines |-> <<lines[i].word, lines[i].num>>]

(* C19: get_top_words(n, stop_words) returns at most n (word, count)       *)
(* pairs, no word of them a stop word, each with the count                 *)
(* word_frequencies has for it, the counts in descending order, and no     *)
(* word that is left out and is no stop word has a greater count than a    *)
(* word returned; without a stop-word file the stop words of the report    *)
(* are the empty set, and the report lists the words of get_top_words(50)  *)
(* with no stop word.                                                      *)
C19_TopWords ==
    /\ last.out.op = "get_top_words" =>
         LET top == last.out.result
             wf == data.word_frequencies
             stop_words == last.out.stop
         IN  /\ Len(top) <= last.out.n
             /\ \A i \in DOMAIN top :
                  /\ top[i][1] \notin stop_words
                  /\ top[i][1] \in DictKeys(wf)
                  /\ top[i][2] = DictGet(wf, top[i][1], 0)
             /\ \A i, j \in DOMAIN top : i < j => top[i][2] >= top[j][2]
             /\ \A w \in DictKeys(wf) \ stop_words :
                  (\A i \in DOMAIN top : top[i][1] # w) =>
                      \A i \in DOMAIN top : DictGet(wf, w, 0) <= top[i][2]
    /\ StopWords(NoStopFile) = {}
    /\ (last.out.op = "generate_report" /\ last.out.stop = {}) =>
         /\ ReportWords(last.out.result) = get_top_words(data, 50, {})
         /\ {ReportWords(last.out.result)[i][1] : i \in DOMAIN ReportWords(last.out.result)}
              = DictKeys(data.word_frequencies)

(* C19 witness: get_top_words has returned n >= 1 words, fewer than the    *)
(* words that are no stop words, a stop word being counted, and a word     *)
(* returned stands behind a word of a smaller count in word_frequencies.   *)
C19_Witness ==
    /\ last.out.op = "get_top_words"
    /\ last.out.n >= 1
    /\ Len(last.out.result) = last.out.n
    /\ Cardinality(DictKeys(data.word_frequencies) \ last.out.stop) > last.out.n
    /\ last.out.stop \cap DictKeys(data.word_frequencies) # {}
    /\ \E i, j \in DOMAIN data.word_frequencies :
         /\ i < j
         /\ data.word_frequencies[i].v < data.word_frequencies[j].v
         /\ data.word_frequencies[i].k \notin last.out.stop
         /\ \E m \in DOMAIN last.out.result : last.out.result[m][1] = data.word_frequencies[j].k

(* C15 (stated as the claim has it): a callback whose request URL was not  *)
(* fetched before in its process never gives add_page a page URL that an   *)
(* earlier add_page call, of this process or of one before a restart, was  *)
(* given; so add_page is applied at most once for each page URL.           *)
C15_OneAddPagePerPage ==
    [][(Len(added') = Len(added) + 1 /\ last'.url \notin seen) =>
          \A i \in DOMAIN added : added[i].url # added'[Len(added')].url]_vars

(* C16: a callback puts its request URL into the seen set and takes        *)
(* nothing out of it, whatever the response, and the list it returns holds *)
(* no URL of the seen set; so a URL the callback was invoked with is in    *)
(* no list a later callback of the process returns.                        *)
C16_FetchedNeverReturned ==
    [][(last'.n = last.n + 1) =>
          /\ last'.url \in seen'
          /\ seen \subseteq seen'
          /\ Len(returned') = Len(returned) + 1
          /\ \A i \in DOMAIN returned'[Len(returned')] :
               returned'[Len(returned')][i] \notin seen']_vars

(* C16 witness: the latest callback returned links of a page that also     *)
(* links to a URL in scope which an earlier callback of the process was    *)
(* invoked with, one of them with a failed response.                       *)
C16_Witness ==
    /\ Len(returned) >= 3
    /\ returned[Len(returned)] # <<>>
    /\ returned[1] = <<>>
    /\ \E i \in DOMAIN PageLinks(last.resp) :
         /\ PageLinks(last.resp)[i] \in seen \ {last.url}
         /\ is_valid(PageLinks(last.resp)[i], {})

(* ASCII letters and digits, after lowercasing                             *)
AsciiAlnum == {"a", "b", "1"}

RECURSIVE Runs(_, _)
(* the maximal runs of ASCII letters and digits of t, cur being the run    *)
(* that is open; every other character ends a run                          *)
Runs(t, cur) ==
    LET closed == IF cur = <<>> THEN <<>> ELSE <<cur>>
    IN  IF t = <<>> THEN closed
        ELSE IF Head(t) \in AsciiAlnum THEN Runs(Tail(t), Append(cur, Head(t)))
        ELSE closed \o Runs(Tail(t), <<>>)

MaximalRuns(text) == Runs(LowerSeq(text), <<>>)

(* C17 (stated as the claim has it): the tokens of a page's text are, in   *)
(* order, the maximal runs of ASCII letters and digits of the lowercased   *)
(* text, the underscore and non-ASCII letters ending a run like any other  *)
(* character, and the page's word count is their number.                   *)
C17_TokensAreMaximalRuns ==
    added # <<>> =>
        /\ _tokenize(added[1].text) = MaximalRuns(added[1].text)
        /\ data.longest_page.word_count = Len(MaximalRuns(added[1].text))
        /\ SumCounts(data.word_frequencies) = Len(MaximalRuns(added[1].text))

(* the identity of a URL as the specification has it: without its          *)
(* fragment, scheme and host in lower case                                 *)
Identity(url) ==
    [scheme |-> Lower(url.scheme), netloc |-> LowerSeq(url.netloc), path |-> url.path, frag |-> ""]

(* C18 (stated as the claim has it): the list the latest callback returned *)
(* holds no URL that differs from a fetched one only by its fragment or by *)
(* the letter case of scheme and host, and unique_urls holds no two URLs   *)
(* that differ only so.                                                    *)
C18_DedupByIdentity ==
    /\ returned # <<>> =>
         \A i \in DOMAIN returned[Len(returned)] :
             \A u \in seen : Identity(returned[Len(returned)][i]) # Identity(u)
    /\ \A u, v \in Elems(data.unique_urls) : Identity(u) = Identity(v) => u = v

(* the count get_subdomains gives for host, 0 when it does not list it     *)
SubdomainCount(d, host) ==
    LET pairs == get_subdomains(d)
    IN  IF \E i \in DOMAIN pairs : pairs[i][1] = host
        THEN pairs[CHOOSE i \in DOMAIN pairs : pairs[i][1] = host][2]
        ELSE 0

(* C20: every URL of a subdomains set is in unique_urls, and so is         *)
(* longest_page.url when its word count is positive; adding a URL that     *)
(* unique_urls holds leaves unique_urls and the subdomain map as they are; *)
(* and get_unique_page_count and the count of every subdomain never        *)
(* decrease, over callbacks and restarts.                                  *)
C20_CrossFieldConsistency ==
    /\ [](/\ \A i \in DOMAIN data.subdomains :
               Elems(data.subdomains[i].v) \subseteq Elems(data.unique_urls)
          /\ data.longest_page.word_count > 0 =>
               data.longest_page.url \in Elems(data.unique_urls))
    /\ [][/\ (Len(added') = Len(added) + 1
              /\ added'[Len(added')].url \in Elems(data.unique_urls)) =>
                /\ Elems(data'.unique_urls) = Elems(data.unique_urls)
                /\ SubdomainMap(data') = SubdomainMap(data)
          /\ get_unique_page_count(data') >= get_unique_page_count(data)
          /\ \A host \in DictKeys(data.subdomains) :
               SubdomainCount(data', host) >= SubdomainCount(data, host)]_vars

(* C20 witness: a URL was added a second time, after a restart, to a state *)
(* with a subdomain of two URLs.                                           *)
C20_Witness ==
    /\ \E i, j \in DOMAIN added : i < j /\ added[i].url = added[j].url
    /\ Len(returned) < last.n
    /\ \E host \in DictKeys(data.subdomains) : SubdomainCount(data, host) >= 2
    /\ data.longest_page.word_count > 0

====
